---- MODULE Spec2Model ----
(***************************************************************************)
(* The asset editor's state machine, treeMachine (src/src/App.tsx), as a   *)
(* transition system: the machine's state value and context, the child     *)
(* actor the current state invokes, and the promises still pending after   *)
(* their actor was stopped.  One action per inbound event and one per      *)
(* settlement of an invoked promise actor.                                 *)
(*                                                                         *)
(* Strings are the source's strings, except that the en dash of the fund   *)
(* names ("FUND – AAA") is written as an ASCII hyphen.                     *)
(***************************************************************************)
EXTENDS Integers, Sequences, FiniteSets, TLC

(***************************************************************************)
(* Bounds of the model.                                                    *)
(***************************************************************************)
\* The store never grows beyond MaxAssets records: an operation whose
\* success would exceed it can only fail.
MaxAssets == 6

\* At most MaxAbandoned imports are pending after their dialog was closed.
MaxAbandoned == 1

(***************************************************************************)
(* Optional values: `undefined` is the empty tuple, a set value a          *)
(* one-element tuple.                                                      *)
(***************************************************************************)
undefined == <<>>

Some(x) == <<x>>

(***************************************************************************)
(* Data.                                                                   *)
(***************************************************************************)
Asset(id, code, type, name, weight) ==
    [id |-> id, code |-> code, type |-> type, name |-> name, weight |-> weight]

\* The fund names of the dropdown.
funds == <<"FUND - AAA", "FUND - BBB", "FUND - CCC",
           "FUND - DDD", "FUND - EEE", "FUND - FFF">>

\* The values SELECT_FUND carries: the dropdown's placeholder option (the
\* empty string) and the first fund.
FundChoices == {"", funds[1]}

\* The ids SELECT_ASSET carries: two fetched ids and the id an added asset
\* gets.  The machine accepts them whether or not the store holds them.
AssetIdChoices == {"1", "2", funds[1]}

\* What "Fetch assets" resolves with when the page's query string does not
\* hold "empty".
SeedAssets ==
    << Asset("1", "123aq1", "TREE", "Tree A", "10%"),
       Asset("2", "456aq2", "STRATEGY", "Strategy B", "20%"),
       Asset("3", "789aq3", "FUND", "Fund C", "30%"),
       Asset("4", "101aq4", "FUND", "Fund D", "70%") >>

\* The outputs of "Fetch assets": no asset ("empty" in the query string) or
\* the seeded four.
fetchAssets == { [assets |-> <<>>], [assets |-> SeedAssets] }

\* The output of "Add asset" for its input.
addAsset(input) ==
    Asset(input.assetId, "new-code", "FUND", input.assetId, "50%")

\* The output of "Replace asset" for its input.
replaceAsset(input) ==
    Asset(input.newAssetId, "new-code", "FUND", input.newAssetId, "50%")

\* The output of "Import data".
importData ==
    [assets |-> << Asset("5", "new-code", "FUND", "New Fund", "50%"),
                   Asset("6", "new-code-2", "FUND", "New Fund 2", "50%") >>]

\* Array.prototype.filter((asset) => asset.id !== sel), sel optional: an id
\* never equals undefined, so nothing is dropped then.
FilterOutId(as, sel) == SelectSeq(as, LAMBDA a : Some(a.id) # sel)

\* The ids of a sequence of assets.
Ids(as) == { as[i].id : i \in 1..Len(as) }

(***************************************************************************)
(* State.                                                                  *)
(***************************************************************************)
VARIABLES
    value,            \* the machine's state value (a path of state names)
    selectedFund,     \* context.selectedFund: undefined or Some(string)
    selectedAssetId,  \* context.selectedAssetId: undefined or Some(string)
    assets,           \* context.assets
    invoked,          \* the child actor of the current state: undefined or
                      \* Some([src, input])
    abandoned,        \* promises of stopped "Import data" actors not yet settled
    status            \* the machine actor's status: "active" or "error"

vars == <<value, selectedFund, selectedAssetId, assets, invoked, abandoned, status>>

ctx == <<selectedFund, selectedAssetId, assets>>

Loading == <<"Loading initial data">>
Idle == <<"Idle">>
Deleting == <<"Deleting asset">>
Adding == <<"Adding asset">>
Replacing == <<"Replacing asset">>
DialogIdle == <<"Import dialog opened", "Idle">>
DialogImporting == <<"Import dialog opened", "Importing data">>

StateValues ==
    {Loading, Idle, Deleting, Adding, Replacing, DialogIdle, DialogImporting}

\* state.matches("Import dialog opened")
InImportDialog == value[1] = "Import dialog opened"

\* The tags of the state value: the tags of its active state nodes.  The
\* root's Loading initial data, Deleting asset, Adding asset and Replacing
\* asset are tagged; Idle, Import dialog opened and its sub-states are not.
Tags(v) ==
    IF v \in {Loading, Deleting, Adding, Replacing}
    THEN {"Synchronizing"}
    ELSE {}

\* state.hasTag(tag)
hasTag(tag) == tag \in Tags(value)

Actor(src, input) == Some([src |-> src, input |-> input])

Init ==
    /\ value = Loading
    /\ selectedFund = undefined
    /\ selectedAssetId = undefined
    /\ assets = <<>>
    /\ invoked = Actor("Fetch assets", undefined)
    /\ abandoned = 0
    /\ status = "active"

(***************************************************************************)
(* Guards of Idle's transitions.                                           *)
(***************************************************************************)
\* Mutant of DeleteGuard: DELETE_ASSET is not guarded.
DeleteGuard_None == TRUE

DeleteGuard == selectedAssetId # undefined

AddGuard == selectedFund # undefined

\* Mutant of ReplaceGuard: the fund is not looked at.
ReplaceGuard_AssetOnly == selectedAssetId # undefined

ReplaceGuard == selectedAssetId # undefined /\ selectedFund # undefined

(***************************************************************************)
(* The input mappers of the invoking states.  A mapper that throws makes   *)
(* the machine actor fail: its status becomes "error" and it processes     *)
(* nothing further.                                                        *)
(***************************************************************************)
DeleteInputThrows == selectedAssetId = undefined

DeleteInput == [assetId |-> selectedAssetId[1]]

AddInputThrows == selectedFund = undefined

AddInput == [assetId |-> selectedFund[1]]

ReplaceInputThrows == selectedAssetId = undefined \/ selectedFund = undefined

ReplaceInput == [oldAssetId |-> selectedAssetId[1], newAssetId |-> selectedFund[1]]

\* Entering an invoking state: the input is computed from the context once,
\* and the actor started with it.
Enter(target, src, throws, input) ==
    IF throws
    THEN /\ status' = "error"
         /\ UNCHANGED <<value, invoked>>
    ELSE /\ value' = target
         /\ invoked' = Actor(src, input)
         /\ UNCHANGED status

(***************************************************************************)
(* state.can(event): some transition is enabled for the event and it has a *)
(* target or actions.                                                      *)
(***************************************************************************)
\* Mutant of Can: Idle's four transitions declared on the root, so enabled
\* in every state.
Can_AnyState(type) ==
    CASE type = "DELETE_ASSET" -> DeleteGuard
      [] type = "ADD_ASSET" -> AddGuard
      [] type = "REPLACE_ASSET" -> ReplaceGuard
      [] type = "OPEN_IMPORT_DIALOG" -> TRUE
      [] type = "IMPORT_DATA" -> value = DialogIdle
      [] type = "CLOSE_IMPORT_DIALOG" -> InImportDialog
      [] type \in {"SELECT_FUND", "SELECT_ASSET", "UNSELECT_ASSET"} -> TRUE
      [] OTHER -> FALSE

Can(type) ==
    CASE type = "DELETE_ASSET" -> value = Idle /\ DeleteGuard
      [] type = "ADD_ASSET" -> value = Idle /\ AddGuard
      [] type = "REPLACE_ASSET" -> value = Idle /\ ReplaceGuard
      [] type = "OPEN_IMPORT_DIALOG" -> value = Idle
      [] type = "IMPORT_DATA" -> value = DialogIdle
      [] type = "CLOSE_IMPORT_DIALOG" -> InImportDialog
      [] type \in {"SELECT_FUND", "SELECT_ASSET", "UNSELECT_ASSET"} -> TRUE
      [] OTHER -> FALSE

(***************************************************************************)
(* Inbound events.  An event no enabled transition handles is dropped, and  *)
(* so is every event sent to a machine actor that has failed.              *)
(***************************************************************************)
SELECT_FUND(fund) ==
    IF status # "active"
    THEN UNCHANGED vars
    ELSE /\ selectedFund' = Some(fund)
         /\ UNCHANGED <<value, selectedAssetId, assets, invoked, abandoned, status>>

\* Mutant of SELECT_ASSET: selecting the selected asset unselects it.
SELECT_ASSET_Toggles(assetId) ==
    IF status # "active"
    THEN UNCHANGED vars
    ELSE /\ selectedAssetId' =
               IF selectedAssetId = Some(assetId) THEN undefined ELSE Some(assetId)
         /\ UNCHANGED <<value, selectedFund, assets, invoked, abandoned, status>>

SELECT_ASSET(assetId) ==
    IF status # "active"
    THEN UNCHANGED vars
    ELSE /\ selectedAssetId' = Some(assetId)
         /\ UNCHANGED <<value, selectedFund, assets, invoked, abandoned, status>>

UNSELECT_ASSET ==
    IF status # "active"
    THEN UNCHANGED vars
    ELSE /\ selectedAssetId' = undefined
         /\ UNCHANGED <<value, selectedFund, assets, invoked, abandoned, status>>

DELETE_ASSET ==
    IF status # "active"
    THEN UNCHANGED vars
    ELSE /\ IF Can("DELETE_ASSET")
            THEN Enter(Deleting, "Delete asset", DeleteInputThrows, DeleteInput)
            ELSE UNCHANGED <<value, invoked, status>>
         /\ UNCHANGED <<ctx, abandoned>>

\* Mutant of ADD_ASSET: handled in every state, guarded by the fund alone.
ADD_ASSET_AtRoot ==
    IF status # "active"
    THEN UNCHANGED vars
    ELSE /\ IF AddGuard
            THEN Enter(Adding, "Add asset", AddInputThrows, AddInput)
            ELSE UNCHANGED <<value, invoked, status>>
         /\ UNCHANGED <<ctx, abandoned>>

ADD_ASSET ==
    IF status # "active"
    THEN UNCHANGED vars
    ELSE /\ IF Can("ADD_ASSET")
            THEN Enter(Adding, "Add asset", AddInputThrows, AddInput)
            ELSE UNCHANGED <<value, invoked, status>>
         /\ UNCHANGED <<ctx, abandoned>>

REPLACE_ASSET ==
    IF status # "active"
    THEN UNCHANGED vars
    ELSE /\ IF Can("REPLACE_ASSET")
            THEN Enter(Replacing, "Replace asset", ReplaceInputThrows, ReplaceInput)
            ELSE UNCHANGED <<value, invoked, status>>
         /\ UNCHANGED <<ctx, abandoned>>

\* Mutant of OPEN_IMPORT_DIALOG: the dialog's initial sub-state is
\* Importing data, so opening it starts the import.
OPEN_IMPORT_DIALOG_StartsImport ==
    IF status # "active"
    THEN UNCHANGED vars
    ELSE /\ IF Can("OPEN_IMPORT_DIALOG")
            THEN /\ value' = DialogImporting
                 /\ invoked' = Actor("Import data", undefined)
            ELSE UNCHANGED <<value, invoked>>
         /\ UNCHANGED <<ctx, abandoned, status>>

OPEN_IMPORT_DIALOG ==
    IF status # "active"
    THEN UNCHANGED vars
    ELSE /\ value' = IF Can("OPEN_IMPORT_DIALOG") THEN DialogIdle ELSE value
         /\ UNCHANGED <<ctx, invoked, abandoned, status>>

IMPORT_DATA ==
    IF status # "active"
    THEN UNCHANGED vars
    ELSE /\ IF Can("IMPORT_DATA")
            THEN /\ value' = DialogImporting
                 /\ invoked' = Actor("Import data", undefined)
            ELSE UNCHANGED <<value, invoked>>
         /\ UNCHANGED <<ctx, abandoned, status>>

\* Leaving "Importing data" stops its actor; the promise behind it is not
\* cancelled and settles later, unobserved.
CLOSE_IMPORT_DIALOG ==
    IF status # "active"
    THEN UNCHANGED vars
    ELSE /\ IF Can("CLOSE_IMPORT_DIALOG")
            THEN /\ value' = Idle
                 /\ invoked' = undefined
                 /\ IF invoked # undefined
                    THEN abandoned < MaxAbandoned /\ abandoned' = abandoned + 1
                    ELSE UNCHANGED abandoned
            ELSE UNCHANGED <<value, invoked, abandoned>>
         /\ UNCHANGED <<ctx, status>>

(***************************************************************************)
(* Settlements of the invoked actors.                                      *)
(***************************************************************************)
Invoking(src) == status = "active" /\ invoked # undefined /\ invoked[1].src = src

\* onDone / onError of an invoking state at the root: to Idle, actor gone.
ToIdle ==
    /\ value' = Idle
    /\ invoked' = undefined
    /\ UNCHANGED <<abandoned, status>>

\* Mutant of FetchDone: the output is not assigned.
FetchDone_DropsOutput(output) ==
    /\ Invoking("Fetch assets")
    /\ output \in fetchAssets
    /\ assets' = <<>>
    /\ UNCHANGED <<selectedFund, selectedAssetId>>
    /\ ToIdle

FetchDone(output) ==
    /\ Invoking("Fetch assets")
    /\ assets' = output.assets
    /\ UNCHANGED <<selectedFund, selectedAssetId>>
    /\ ToIdle

FetchError ==
    /\ Invoking("Fetch assets")
    /\ assets' = <<>>
    /\ UNCHANGED <<selectedFund, selectedAssetId>>
    /\ ToIdle

\* Mutant of DeleteDone: selectedAssetId is not cleared.
DeleteDone_KeepsSelection ==
    /\ Invoking("Delete asset")
    /\ assets' = FilterOutId(assets, selectedAssetId)
    /\ UNCHANGED <<selectedFund, selectedAssetId>>
    /\ ToIdle

DeleteDone ==
    /\ Invoking("Delete asset")
    /\ selectedAssetId' = undefined
    /\ assets' = FilterOutId(assets, selectedAssetId)
    /\ UNCHANGED selectedFund
    /\ ToIdle

\* Mutant of DeleteError: a failed delete clears the selection only, as a
\* failed add or replace does.
DeleteError_KeepsAssets ==
    /\ Invoking("Delete asset")
    /\ selectedAssetId' = undefined
    /\ UNCHANGED <<selectedFund, assets>>
    /\ ToIdle

DeleteError ==
    /\ Invoking("Delete asset")
    /\ selectedAssetId' = undefined
    /\ assets' = FilterOutId(assets, selectedAssetId)
    /\ UNCHANGED selectedFund
    /\ ToIdle

\* Mutant of AddDone: the output is put first, not last.
AddDone_Prepends ==
    /\ Invoking("Add asset")
    /\ Len(assets) + 1 <= MaxAssets
    /\ selectedFund' = undefined
    /\ assets' = <<addAsset(invoked[1].input)>> \o assets
    /\ UNCHANGED selectedAssetId
    /\ ToIdle

\* Mutant of AddDone: the asset is built from the fund selected at
\* settlement, not from the actor's output.
AddDone_UsesCurrentFund ==
    /\ Invoking("Add asset")
    /\ Len(assets) + 1 <= MaxAssets
    /\ selectedFund' = undefined
    /\ assets' = Append(assets, addAsset([assetId |-> selectedFund[1]]))
    /\ UNCHANGED selectedAssetId
    /\ ToIdle

AddDone ==
    /\ Invoking("Add asset")
    /\ Len(assets) + 1 <= MaxAssets
    /\ selectedFund' = undefined
    /\ assets' = Append(assets, addAsset(invoked[1].input))
    /\ UNCHANGED selectedAssetId
    /\ ToIdle

AddError ==
    /\ Invoking("Add asset")
    /\ selectedFund' = undefined
    /\ UNCHANGED <<selectedAssetId, assets>>
    /\ ToIdle

ReplaceDone ==
    /\ Invoking("Replace asset")
    /\ Len(FilterOutId(assets, selectedAssetId)) + 1 <= MaxAssets
    /\ selectedAssetId' = undefined
    /\ selectedFund' = undefined
    /\ assets' = Append(FilterOutId(assets, selectedAssetId),
                        replaceAsset(invoked[1].input))
    /\ ToIdle

\* Mutant of ReplaceError: a failed replace removes the old asset, as a
\* failed delete does.
ReplaceError_RemovesOld ==
    /\ Invoking("Replace asset")
    /\ selectedAssetId' = undefined
    /\ selectedFund' = undefined
    /\ assets' = FilterOutId(assets, selectedAssetId)
    /\ ToIdle

\* Mutant of ReplaceError: Replacing asset has no onError, so a failed
\* replace stops the machine actor.
ReplaceError_Unhandled ==
    /\ Invoking("Replace asset")
    /\ status' = "error"
    /\ UNCHANGED <<value, ctx, invoked, abandoned>>

ReplaceError ==
    /\ Invoking("Replace asset")
    /\ selectedAssetId' = undefined
    /\ selectedFund' = undefined
    /\ UNCHANGED assets
    /\ ToIdle

\* "Importing data" onDone: to Done, a final state, which completes
\* "Import dialog opened", whose onDone goes to Idle in the same macrostep.
\* Mutant of ImportDone: the machine rests in Done until a later event.
ImportDone_RestsInDone ==
    /\ Invoking("Import data")
    /\ Len(assets) + Len(importData.assets) <= MaxAssets
    /\ assets' = assets \o importData.assets
    /\ value' = <<"Import dialog opened", "Done">>
    /\ invoked' = undefined
    /\ UNCHANGED <<selectedFund, selectedAssetId, abandoned, status>>

ImportDone ==
    /\ Invoking("Import data")
    /\ Len(assets) + Len(importData.assets) <= MaxAssets
    /\ assets' = assets \o importData.assets
    /\ UNCHANGED <<selectedFund, selectedAssetId>>
    /\ ToIdle

\* "Importing data" has no onError: the error event of its actor selects no
\* transition, and the machine actor fails with that error.
ImportError ==
    /\ Invoking("Import data")
    /\ status' = "error"
    /\ UNCHANGED <<value, ctx, invoked, abandoned>>

\* The promise of a stopped "Import data" actor settles: nothing observes it.
\* Mutant of AbandonedImportSettles: the result of an import left by
\* CLOSE_IMPORT_DIALOG is applied when it arrives.
AbandonedImportSettles_Applies ==
    /\ abandoned > 0
    /\ abandoned' = abandoned - 1
    /\ Len(assets) + Len(importData.assets) <= MaxAssets
    /\ assets' = assets \o importData.assets
    /\ UNCHANGED <<value, selectedFund, selectedAssetId, invoked, status>>

AbandonedImportSettles ==
    /\ abandoned > 0
    /\ abandoned' = abandoned - 1
    /\ UNCHANGED <<value, ctx, invoked, status>>

Next ==
    \/ \E fund \in FundChoices : SELECT_FUND(fund)
    \/ \E assetId \in AssetIdChoices : SELECT_ASSET(assetId)
    \/ UNSELECT_ASSET
    \/ DELETE_ASSET
    \/ ADD_ASSET
    \/ REPLACE_ASSET
    \/ OPEN_IMPORT_DIALOG
    \/ IMPORT_DATA
    \/ CLOSE_IMPORT_DIALOG
    \/ \E output \in fetchAssets : FetchDone(output)
    \/ FetchError
    \/ DeleteDone
    \/ DeleteError
    \/ AddDone
    \/ AddError
    \/ ReplaceDone
    \/ ReplaceError
    \/ ImportDone
    \/ ImportError
    \/ AbandonedImportSettles

Spec == Init /\ [][Next]_vars

\* The settlements of the four actors the root's states invoke.
RootSettles ==
    \/ \E output \in fetchAssets : FetchDone(output)
    \/ FetchError
    \/ DeleteDone
    \/ DeleteError
    \/ AddDone
    \/ AddError
    \/ ReplaceDone
    \/ ReplaceError

\* Every operation a root state started settles eventually.
FairSpec == Spec /\ WF_vars(RootSettles)

TypeOK ==
    /\ value \in StateValues
    /\ status \in {"active", "error"}
    /\ abandoned \in 0..MaxAbandoned
    /\ Len(assets) <= MaxAssets

(***************************************************************************)
(* Helpers of the properties.                                              *)
(***************************************************************************)
\* No two records of the sequence have the same id.
UniqueIds(as) ==
    \A i, j \in 1..Len(as) : as[i].id = as[j].id => i = j

\* selectedAssetId is unset or names a record of the store.
SelectionInStore ==
    selectedAssetId = undefined \/ selectedAssetId[1] \in Ids(assets)

\* The step processes a SELECT_ASSET whose id no record of the store has.
SelectsForeignAsset ==
    \E assetId \in AssetIdChoices :
        assetId \notin Ids(assets) /\ SELECT_ASSET(assetId)

\* The promises started and not yet settled: the one of the invoked actor
\* and those of stopped actors.
Outstanding == (IF invoked # undefined THEN 1 ELSE 0) + abandoned

\* The step processes one of the four events Idle alone handles.
IdleOnlyEvent ==
    DELETE_ASSET \/ ADD_ASSET \/ REPLACE_ASSET \/ OPEN_IMPORT_DIALOG

(***************************************************************************)
(* C1.  In every reachable state the asset store holds no two records with *)
(* the same id.  Stated as the claim states it; the machine appends        *)
(* without looking at the ids the store holds.                             *)
(***************************************************************************)
C1_NoDuplicateIds == UniqueIds(assets)

(***************************************************************************)
(* C2, as stated.  Whenever the machine is in the root Idle state and      *)
(* selectedAssetId is set, it is the id of a record of the store.          *)
(***************************************************************************)
C2_SelectionInStoreInIdle == value = Idle => SelectionInStore

(***************************************************************************)
(* C2, amended.  The machine accepts SELECT_ASSET with any id in any       *)
(* state; every other step keeps the selection in the store: if            *)
(* selectedAssetId is unset or names a record of the store before a step   *)
(* that is not a SELECT_ASSET of an id absent from the store, the same     *)
(* holds after it, in Idle and in every other state.                       *)
(***************************************************************************)
C2_SelectionStaysInStore ==
    [][(SelectionInStore /\ ~SelectsForeignAsset) => SelectionInStore']_vars

\* In Idle after a removal, an asset of the store is selected.
C2_Witness ==
    /\ value = Idle
    /\ selectedAssetId # undefined
    /\ selectedAssetId[1] \in Ids(assets)
    /\ Len(assets) = 3

(***************************************************************************)
(* C3.  In root Idle, DELETE_ASSET is accepted (can is true and the        *)
(* machine moves to Deleting asset) iff selectedAssetId is set, ADD_ASSET  *)
(* iff selectedFund is set, REPLACE_ASSET iff both are set; an event whose *)
(* guard fails changes nothing.                                            *)
(***************************************************************************)
C3_GuardedEvents ==
    /\ [](value = Idle =>
            /\ Can("DELETE_ASSET") <=> selectedAssetId # undefined
            /\ Can("ADD_ASSET") <=> selectedFund # undefined
            /\ Can("REPLACE_ASSET") <=>
                   (selectedAssetId # undefined /\ selectedFund # undefined))
    /\ [][(value = Idle /\ DELETE_ASSET) =>
            IF selectedAssetId # undefined
            THEN value' = Deleting /\ status' = "active" /\ ctx' = ctx
            ELSE UNCHANGED vars]_vars
    /\ [][(value = Idle /\ ADD_ASSET) =>
            IF selectedFund # undefined
            THEN value' = Adding /\ status' = "active" /\ ctx' = ctx
            ELSE UNCHANGED vars]_vars
    /\ [][(value = Idle /\ REPLACE_ASSET) =>
            IF selectedAssetId # undefined /\ selectedFund # undefined
            THEN value' = Replacing /\ status' = "active" /\ ctx' = ctx
            ELSE UNCHANGED vars]_vars

\* REPLACE_ASSET was accepted with both selections set.
C3_Witness ==
    /\ value = Replacing
    /\ invoked = Actor("Replace asset", [oldAssetId |-> "2", newAssetId |-> funds[1]])

(***************************************************************************)
(* C4.  DELETE_ASSET, ADD_ASSET, REPLACE_ASSET and OPEN_IMPORT_DIALOG      *)
(* change nothing outside root Idle, whatever the selections are; so the   *)
(* three root invoking states and the import dialog are entered from Idle  *)
(* only, when the machine invokes no actor.                                *)
(***************************************************************************)
C4_IdleOnlyEvents ==
    /\ [][(value # Idle /\ IdleOnlyEvent) => UNCHANGED vars]_vars
    /\ [][(value' # value /\ value' \in {Deleting, Adding, Replacing, DialogIdle})
            => (value = Idle /\ invoked = undefined)]_vars

\* An add is in flight while both selections are set: DELETE_ASSET and
\* REPLACE_ASSET would pass their guards, and are dropped.
C4_Witness ==
    /\ value = Adding
    /\ selectedAssetId # undefined
    /\ selectedFund # undefined

(***************************************************************************)
(* C5, as stated.  At most one promise is outstanding at every moment,     *)
(* those of imports left by CLOSE_IMPORT_DIALOG included.                  *)
(***************************************************************************)
C5_AtMostOneOutstanding == Outstanding <= 1

(***************************************************************************)
(* C5, amended.  The machine starts an actor only when it invokes none:    *)
(* the invoked actor changes only from none to one or from one to none,    *)
(* and an actor is invoked exactly in the invoking states.  The promise of *)
(* an import left by CLOSE_IMPORT_DIALOG is not among the invoked: it      *)
(* stays pending while later operations start.                             *)
(***************************************************************************)
C5_OneInvokedActor ==
    /\ [](invoked # undefined <=>
            value \in {Loading, Deleting, Adding, Replacing, DialogImporting})
    /\ [][invoked' # invoked => (invoked = undefined \/ invoked' = undefined)]_vars
    /\ [][abandoned' > abandoned =>
            (value = DialogImporting /\ CLOSE_IMPORT_DIALOG)]_vars

\* A delete is in flight while an abandoned import is still pending.
C5_Witness ==
    /\ value = Deleting
    /\ invoked # undefined
    /\ abandoned = 1

(***************************************************************************)
(* Removal stated on positions: `new` is `old` without the records whose   *)
(* id is sel (none when sel is undefined), the others in their order.      *)
(***************************************************************************)
KeptPositions(old, sel) == { i \in 1..Len(old) : Some(old[i].id) # sel }

IsRemovalOf(old, new, sel) ==
    /\ Len(new) = Cardinality(KeptPositions(old, sel))
    /\ \A i \in KeptPositions(old, sel) :
          new[Cardinality({ j \in KeptPositions(old, sel) : j <= i })] = old[i]

\* All of a non-empty sequence but its last element.
Front(seq) == SubSeq(seq, 1, Len(seq) - 1)

\* The step processes SELECT_FUND, SELECT_ASSET or UNSELECT_ASSET.
SelectionEvent ==
    \/ \E fund \in FundChoices : SELECT_FUND(fund)
    \/ \E assetId \in AssetIdChoices : SELECT_ASSET(assetId)
    \/ UNSELECT_ASSET

(***************************************************************************)
(* C6.  When the delete settles, with success or with failure, the machine *)
(* goes to root Idle, the records whose id is selectedAssetId are removed  *)
(* and the others keep their order, selectedAssetId becomes unset and      *)
(* selectedFund is unchanged.                                              *)
(***************************************************************************)
C6_DeleteSettles ==
    [][(DeleteDone \/ DeleteError \/ (value = Deleting /\ value' # value)) =>
          /\ value' = Idle
          /\ IsRemovalOf(assets, assets', selectedAssetId)
          /\ selectedAssetId' = undefined
          /\ selectedFund' = selectedFund]_vars

\* Back in Idle with the seeded asset "2" removed and nothing selected.
C6_Witness ==
    /\ value = Idle
    /\ assets = << SeedAssets[1], SeedAssets[3], SeedAssets[4] >>
    /\ selectedAssetId = undefined

(***************************************************************************)
(* C7.  When a delete, or a successful replace, returns the machine to     *)
(* root Idle, the asset whose id was captured as the operation's input is  *)
(* absent from the records the store held and no other of them has been    *)
(* removed, whatever selection events were processed in between.  Stated   *)
(* as the claim states it; the machine filters on the selectedAssetId of   *)
(* the moment of settlement.                                               *)
(***************************************************************************)
C7_CapturedAssetRemoved ==
    /\ [][(value = Deleting /\ value' = Idle) =>
            IsRemovalOf(assets, assets', Some(invoked[1].input.assetId))]_vars
    /\ [][(value = Replacing /\ ReplaceDone) =>
            IsRemovalOf(assets, Front(assets'),
                        Some(invoked[1].input.oldAssetId))]_vars

(***************************************************************************)
(* C8.  When the add settles the machine goes to root Idle with            *)
(* selectedFund unset and selectedAssetId unchanged; on success the store  *)
(* is the previous store with the one output asset appended at the end, on *)
(* failure the store is unchanged.                                         *)
(***************************************************************************)
C8_AddSettles ==
    /\ [][AddDone =>
            /\ value' = Idle
            /\ selectedFund' = undefined
            /\ selectedAssetId' = selectedAssetId
            /\ Len(assets') = Len(assets) + 1
            /\ Front(assets') = assets
            /\ assets'[Len(assets')] =
                   Asset(invoked[1].input.assetId, "new-code", "FUND",
                         invoked[1].input.assetId, "50%")]_vars
    /\ [][AddError =>
            /\ value' = Idle
            /\ selectedFund' = undefined
            /\ selectedAssetId' = selectedAssetId
            /\ assets' = assets]_vars
    /\ [][(value = Adding /\ value' # value) => (AddDone \/ AddError)]_vars

\* Back in Idle with the added asset after the seeded four, no fund selected.
C8_Witness ==
    /\ value = Idle
    /\ Len(assets) = 5
    /\ Front(assets) = SeedAssets
    /\ assets[5].id = funds[1]
    /\ selectedFund = undefined

(***************************************************************************)
(* C9.  When the replace settles the machine goes to root Idle with both   *)
(* selections unset; on success the records whose id is selectedAssetId    *)
(* are removed and the output asset is appended at the end, on failure the *)
(* store is unchanged.                                                     *)
(***************************************************************************)
C9_ReplaceSettles ==
    /\ [][ReplaceDone =>
            /\ value' = Idle
            /\ selectedAssetId' = undefined
            /\ selectedFund' = undefined
            /\ Len(assets') >= 1
            /\ IsRemovalOf(assets, Front(assets'), selectedAssetId)
            /\ assets'[Len(assets')] =
                   Asset(invoked[1].input.newAssetId, "new-code", "FUND",
                         invoked[1].input.newAssetId, "50%")]_vars
    /\ [][ReplaceError =>
            /\ value' = Idle
            /\ selectedAssetId' = undefined
            /\ selectedFund' = undefined
            /\ assets' = assets]_vars
    /\ [][(value = Replacing /\ value' # value) =>
            (ReplaceDone \/ ReplaceError)]_vars

\* Back in Idle with the seeded asset "2" replaced by the fund's asset.
C9_Witness ==
    /\ value = Idle
    /\ assets = << SeedAssets[1], SeedAssets[3], SeedAssets[4],
                   Asset(funds[1], "new-code", "FUND", funds[1], "50%") >>
    /\ selectedAssetId = undefined
    /\ selectedFund = undefined

(***************************************************************************)
(* C10.  The machine starts in Loading initial data with an empty store    *)
(* and both selections unset.  When the fetch settles it goes to root      *)
(* Idle: on success the store is the fetched sequence, on failure the      *)
(* empty sequence.  While loading only the selection events change the     *)
(* selections, so without them both are still unset in Idle.               *)
(***************************************************************************)
C10_InitialLoad ==
    /\ (/\ value = Loading
        /\ assets = <<>>
        /\ selectedFund = undefined
        /\ selectedAssetId = undefined)
    /\ [][\A output \in fetchAssets :
            FetchDone(output) =>
               /\ value' = Idle
               /\ assets' = output.assets
               /\ UNCHANGED <<selectedFund, selectedAssetId>>]_vars
    /\ [][FetchError =>
            /\ value' = Idle
            /\ assets' = <<>>
            /\ UNCHANGED <<selectedFund, selectedAssetId>>]_vars
    /\ [][(value = Loading /\ value' # value) =>
            (FetchError \/ \E output \in fetchAssets : FetchDone(output))]_vars
    /\ [][(value = Loading /\ ~SelectionEvent) =>
            UNCHANGED <<selectedFund, selectedAssetId>>]_vars

\* In Idle with the four seeded assets and no selection.
C10_Witness ==
    /\ value = Idle
    /\ assets = SeedAssets
    /\ selectedFund = undefined
    /\ selectedAssetId = undefined

(***************************************************************************)
(* C11.  SELECT_FUND, SELECT_ASSET and UNSELECT_ASSET are accepted in      *)
(* every state, sub-states of the import dialog included: each sets its    *)
(* own field and leaves the state value, the store, the other selection    *)
(* and the invoked actor unchanged.  Stated as the claim states it; in     *)
(* Importing data after a failed import the machine actor has stopped and  *)
(* takes no event.                                                         *)
(***************************************************************************)
C11_SelectionEventsEverywhere ==
    /\ [](/\ \A fund \in FundChoices :
                ENABLED (SELECT_FUND(fund) /\ selectedFund' = Some(fund))
          /\ \A assetId \in AssetIdChoices :
                ENABLED (SELECT_ASSET(assetId) /\ selectedAssetId' = Some(assetId))
          /\ ENABLED (UNSELECT_ASSET /\ selectedAssetId' = undefined))
    /\ [][\A fund \in FundChoices :
            SELECT_FUND(fund) =>
               /\ selectedFund' = Some(fund)
               /\ UNCHANGED <<value, assets, selectedAssetId, invoked, abandoned>>]_vars
    /\ [][\A assetId \in AssetIdChoices :
            SELECT_ASSET(assetId) =>
               /\ selectedAssetId' = Some(assetId)
               /\ UNCHANGED <<value, assets, selectedFund, invoked, abandoned>>]_vars
    /\ [][UNSELECT_ASSET =>
            /\ selectedAssetId' = undefined
            /\ UNCHANGED <<value, assets, selectedFund, invoked, abandoned>>]_vars

(***************************************************************************)
(* C12.  Selection events are idempotent.  A SELECT_ASSET{x} that changes  *)
(* anything leaves selectedAssetId = x, and where selectedAssetId = x      *)
(* already a SELECT_ASSET{x} changes nothing (no toggle); the same for     *)
(* SELECT_FUND{f}; UNSELECT_ASSET with nothing selected changes nothing.   *)
(***************************************************************************)
C12_SelectionIdempotent ==
    /\ [][\A assetId \in AssetIdChoices :
            SELECT_ASSET(assetId) => selectedAssetId' = Some(assetId)]_vars
    /\ [][\A fund \in FundChoices :
            SELECT_FUND(fund) => selectedFund' = Some(fund)]_vars
    /\ [][UNSELECT_ASSET => selectedAssetId' = undefined]_vars
    /\ [](\A assetId \in AssetIdChoices :
            selectedAssetId = Some(assetId) =>
               ~ENABLED (SELECT_ASSET(assetId) /\ vars' # vars))
    /\ [](\A fund \in FundChoices :
            selectedFund = Some(fund) =>
               ~ENABLED (SELECT_FUND(fund) /\ vars' # vars))
    /\ [](selectedAssetId = undefined =>
            ~ENABLED (UNSELECT_ASSET /\ vars' # vars))

\* An asset and a fund are selected while a delete is in flight.
C12_Witness ==
    /\ value = Deleting
    /\ selectedAssetId = Some("2")
    /\ selectedFund = Some(funds[1])

\* CLOSE_IMPORT_DIALOG can be taken here within the model's bound on
\* abandoned imports.
CloseWithinBound == invoked = undefined \/ abandoned < MaxAbandoned

(***************************************************************************)
(* C13.  CLOSE_IMPORT_DIALOG is accepted in every sub-state of Import      *)
(* dialog opened and moves the machine to root Idle with the store and the *)
(* selections unchanged; the later settlement of an import it left changes *)
(* neither the store nor the state value.  Stated as the claim states it;  *)
(* in Importing data after a failed import the machine actor has stopped   *)
(* and does not take CLOSE_IMPORT_DIALOG.                                  *)
(***************************************************************************)
C13_CloseAbandonsImport ==
    /\ []((InImportDialog /\ CloseWithinBound) =>
            ENABLED (CLOSE_IMPORT_DIALOG /\ value' = Idle))
    /\ [][(InImportDialog /\ CLOSE_IMPORT_DIALOG) =>
            (value' = Idle /\ ctx' = ctx)]_vars
    /\ [][abandoned' < abandoned => UNCHANGED <<value, ctx, invoked, status>>]_vars

(***************************************************************************)
(* C14.  When the import succeeds in Importing data, the output assets are *)
(* appended in order at the end of the store, the selections are           *)
(* unchanged, and the machine is in root Idle after the same step: it      *)
(* never rests in the Done sub-state.                                      *)
(***************************************************************************)
C14_ImportSucceeds ==
    /\ [][ImportDone =>
            /\ value = DialogImporting
            /\ value' = Idle
            /\ assets' = assets \o
                  << Asset("5", "new-code", "FUND", "New Fund", "50%"),
                     Asset("6", "new-code-2", "FUND", "New Fund 2", "50%") >>
            /\ UNCHANGED <<selectedFund, selectedAssetId>>
            /\ invoked' = undefined]_vars
    /\ [](value # <<"Import dialog opened", "Done">>)

\* Back in Idle with the two imported assets after the seeded four.
C14_Witness ==
    /\ value = Idle
    /\ Len(assets) = 6
    /\ SubSeq(assets, 1, 4) = SeedAssets
    /\ assets[5].id = "5"
    /\ assets[6].id = "6"

(***************************************************************************)
(* C15.  When the import fails the machine stays in Importing data with    *)
(* the store and the selections unchanged and still processes events: a    *)
(* later CLOSE_IMPORT_DIALOG returns it to root Idle.  Stated as the claim *)
(* states it; the failure is an actor error no transition handles, which   *)
(* stops the machine actor.                                                *)
(***************************************************************************)
C15_ImportFailureNotFatal ==
    /\ [][ImportError =>
            /\ value' = DialogImporting
            /\ ctx' = ctx
            /\ status' = "active"]_vars
    /\ []((value = DialogImporting /\ abandoned < MaxAbandoned) =>
            ENABLED (CLOSE_IMPORT_DIALOG /\ value' = Idle /\ ctx' = ctx))

(***************************************************************************)
(* C16.  Whenever the current state invokes an actor (fetch, delete, add,  *)
(* replace or import in flight) the state carries the Synchronizing tag,   *)
(* and root Idle never carries it.  Stated as the claim states it;         *)
(* Importing data declares no tag.                                         *)
(***************************************************************************)
C16_SynchronizingWhileInvoking ==
    /\ (invoked # undefined /\ status = "active") => hasTag("Synchronizing")
    /\ value = Idle => ~hasTag("Synchronizing")

(***************************************************************************)
(* C17.  An invoking state is never entered with its required selection    *)
(* unset: on entry to Deleting asset selectedAssetId is set, on entry to   *)
(* Adding asset selectedFund is set, on entry to Replacing asset both are  *)
(* set, and no DELETE_ASSET, ADD_ASSET or REPLACE_ASSET makes the input     *)
(* mapper throw (which would stop the machine actor).                      *)
(***************************************************************************)
C17_InputNeverThrows ==
    /\ [][(value' = Deleting /\ value # Deleting) =>
            (selectedAssetId' # undefined /\ ~DeleteInputThrows)]_vars
    /\ [][(value' = Adding /\ value # Adding) =>
            (selectedFund' # undefined /\ ~AddInputThrows)]_vars
    /\ [][(value' = Replacing /\ value # Replacing) =>
            /\ selectedAssetId' # undefined
            /\ selectedFund' # undefined
            /\ ~ReplaceInputThrows]_vars
    /\ [][(DELETE_ASSET \/ ADD_ASSET \/ REPLACE_ASSET) => status' = status]_vars
    /\ [](status = "error" => value = DialogImporting)

\* A delete was entered with its input built from the selected asset.
C17_Witness ==
    /\ value = Deleting
    /\ invoked = Actor("Delete asset", [assetId |-> "1"])
    /\ selectedAssetId = Some("1")

(***************************************************************************)
(* C18.  If every operation a root state started settles eventually, then  *)
(* from Loading initial data, Deleting asset, Adding asset and Replacing   *)
(* asset the machine eventually reaches root Idle, with no further user    *)
(* event needed and whatever selection events arrive in between.           *)
(***************************************************************************)
C18_InvokingLeadsToIdle ==
    (value \in {Loading, Deleting, Adding, Replacing}) ~> (value = Idle)

\* A delete is in flight and the asset was unselected meanwhile.
C18_Witness ==
    /\ value = Deleting
    /\ selectedAssetId = undefined
    /\ selectedFund # undefined

(***************************************************************************)
(* C19.  The asset appended by a successful add or replace has as id the   *)
(* selectedFund of the moment ADD_ASSET / REPLACE_ASSET was accepted: the  *)
(* input is built from it on entry, stays the same while the state is      *)
(* kept, whatever SELECT_FUND events arrive, and the appended asset's id   *)
(* is the input's.                                                         *)
(***************************************************************************)
C19_CapturedFundAppended ==
    /\ [][(value = Idle /\ value' = Adding) =>
            invoked' = Actor("Add asset", [assetId |-> selectedFund[1]])]_vars
    /\ [][(value = Idle /\ value' = Replacing) =>
            invoked'[1].input.newAssetId = selectedFund[1]]_vars
    /\ [][(value \in {Adding, Replacing} /\ value' = value /\ status' = status) =>
            invoked' = invoked]_vars
    /\ [][AddDone =>
            assets'[Len(assets')].id = invoked[1].input.assetId]_vars
    /\ [][ReplaceDone =>
            assets'[Len(assets')].id = invoked[1].input.newAssetId]_vars

\* An add started for the first fund is in flight and the placeholder was
\* chosen meanwhile.
C19_Witness ==
    /\ value = Adding
    /\ invoked = Actor("Add asset", [assetId |-> funds[1]])
    /\ selectedFund = Some("")

\* The step processes one of the nine inbound events.
InboundEvent ==
    SelectionEvent \/ IdleOnlyEvent \/ IMPORT_DATA \/ CLOSE_IMPORT_DIALOG

(***************************************************************************)
(* C20.  The store changes only in the step that processes the settlement  *)
(* of the actor the machine invokes, which ends in root Idle; none of the  *)
(* nine inbound events changes the store in any state.                     *)
(***************************************************************************)
C20_StoreChangesOnSettlement ==
    /\ [][assets' # assets =>
            /\ status = "active"
            /\ invoked # undefined
            /\ invoked' = undefined
            /\ value' = Idle
            /\ abandoned' = abandoned]_vars
    /\ [][InboundEvent => assets' = assets]_vars

\* Back in Idle after CLOSE_IMPORT_DIALOG left an import in flight, the
\* store as fetched.
C20_Witness ==
    /\ value = Idle
    /\ abandoned = 1
    /\ assets = SeedAssets

(***************************************************************************)
(* C21.  IMPORT_DATA is accepted only in the Idle sub-state of Import      *)
(* dialog opened and CLOSE_IMPORT_DIALOG only inside Import dialog opened; *)
(* elsewhere both change nothing.  The dialog is entered from root Idle,   *)
(* by OPEN_IMPORT_DIALOG, in its Idle sub-state; Importing data is entered *)
(* from that sub-state only, by IMPORT_DATA, and left only towards root    *)
(* Idle: at most one import per opening, none without an opening.          *)
(***************************************************************************)
C21_ImportDialogEvents ==
    /\ [](Can("IMPORT_DATA") => value = DialogIdle)
    /\ [](Can("CLOSE_IMPORT_DIALOG") => InImportDialog)
    /\ [][(IMPORT_DATA /\ value # DialogIdle) => UNCHANGED vars]_vars
    /\ [][(CLOSE_IMPORT_DIALOG /\ ~InImportDialog) => UNCHANGED vars]_vars
    /\ [][(InImportDialog' /\ ~InImportDialog) =>
            /\ value = Idle
            /\ value' = DialogIdle
            /\ OPEN_IMPORT_DIALOG
            /\ invoked' = undefined]_vars
    /\ [][(value' = DialogImporting /\ value # DialogImporting) =>
            (value = DialogIdle /\ IMPORT_DATA)]_vars
    /\ [][(value = DialogImporting /\ value' # value) => value' = Idle]_vars

\* The dialog was opened a second time and its import started, while the
\* import of the first opening is still pending.
C21_Witness ==
    /\ value = DialogImporting
    /\ invoked = Actor("Import data", undefined)
    /\ abandoned = 1
    /\ status = "active"

(***************************************************************************)
(* C22.  After the fund dropdown's placeholder was chosen (SELECT_FUND     *)
(* with the empty string) no fund is selected: in root Idle ADD_ASSET and  *)
(* REPLACE_ASSET are not accepted, and the store never holds an asset with *)
(* the empty id.  Stated as the claim states it; the guards compare        *)
(* selectedFund with undefined, and the empty string is not undefined.     *)
(***************************************************************************)
C22_PlaceholderSelectsNoFund ==
    /\ (value = Idle /\ selectedFund = Some("")) =>
          (~Can("ADD_ASSET") /\ ~Can("REPLACE_ASSET"))
    /\ "" \notin Ids(assets)
====
